---- MODULE Spec2Model ----
(***************************************************************************)
(* A model of gecko.go: the build of a Gecko code list from codes.json.    *)
(*                                                                         *)
(* Go strings are sequences of one-character strings, bytes are 0..255,    *)
(* and a uint64 is a sequence of 16 hex digit values, most significant     *)
(* first, so that arithmetic wraps at 2^64 as it does in Go.               *)
(***************************************************************************)
EXTENDS Integers, Sequences, FiniteSets, TLC

VARIABLES
    branchCall,   \* a call pair of generateBranchCodeLine
    packCall,     \* a call of one of the multi-line encoders
    pc,           \* position of main
    args,         \* os.Args[1:]
    platform,     \* runtime.GOOS
    config,       \* the content of codes.json
    codeIdx,      \* buildBody: index of the code being built
    buildIdx,     \* generateCodeLines: index of the geckoCode being encoded
    result,       \* generateCodeLines: result
    lines,        \* generateCodeLines: the lines of the last geckoCode
    output,       \* var output []string
    tmpFiles,     \* which of asm-to-compile.asm and a.out exist
    fileIdx,      \* main: the number of output files handed to writeOutput
    written,      \* the output files written, in order
    errors,       \* the failures that have happened, in order
    exitStatus    \* <<>> while running, <<status>> once the process has ended

vars == <<branchCall, packCall, pc, args, platform, config, codeIdx, buildIdx,
          result, lines, output, tmpFiles, fileIdx, written, errors, exitStatus>>

runVars == <<pc, args, platform, config, codeIdx, buildIdx, result, lines,
             output, tmpFiles, fileIdx, written, errors, exitStatus>>

-----------------------------------------------------------------------------
(* Strings and hex                                                         *)

UpperDigits == <<"0","1","2","3","4","5","6","7","8","9","A","B","C","D","E","F">>

LowerDigits == <<"0","1","2","3","4","5","6","7","8","9","a","b","c","d","e","f">>

\* unicode.ToUpper on the characters the model uses
UpperChar(c) ==
    CASE c = "a" -> "A" [] c = "b" -> "B" [] c = "c" -> "C" [] c = "d" -> "D"
      [] c = "e" -> "E" [] c = "f" -> "F" [] c = "n" -> "N" [] c = "o" -> "O"
      [] c = "p" -> "P" [] c = "s" -> "S" [] c = "m" -> "M" [] c = "x" -> "X"
      [] OTHER -> c

ToUpper(s) == [i \in 1..Len(s) |-> UpperChar(s[i])]

IsHexChar(c) == \E i \in 1..16 : UpperDigits[i] = c \/ LowerDigits[i] = c

\* the value of a hex character (fromHexChar)
HexVal(c) == (CHOOSE i \in 1..16 : UpperDigits[i] = c \/ LowerDigits[i] = c) - 1

\* s[n:] of Go, n counted from 0
DropFirst(s, n) == SubSeq(s, n + 1, Len(s))

RECURSIVE Flatten(_)
Flatten(ss) == IF ss = <<>> THEN <<>> ELSE Head(ss) \o Flatten(Tail(ss))

\* hex.EncodeToString: two lower-case digits per byte
EncodeToString(bs) ==
    Flatten([i \in 1..Len(bs) |->
                <<LowerDigits[(bs[i] \div 16) + 1], LowerDigits[(bs[i] % 16) + 1]>>])

\* hex.DecodeString: an error on odd length or on a character that is no hex digit
DecodeString(s) ==
    IF Len(s) % 2 = 0 /\ \A i \in 1..Len(s) : IsHexChar(s[i])
    THEN [err |-> FALSE,
          bytes |-> [i \in 1..(Len(s) \div 2) |->
                        16 * HexVal(s[2 * i - 1]) + HexVal(s[2 * i])]]
    ELSE [err |-> TRUE, bytes |-> <<>>]

-----------------------------------------------------------------------------
(* uint64 arithmetic on 16 hex digit values                                *)

U64Zero == [i \in 1..16 |-> 0]

\* strconv.ParseUint(s, 16, 32): on a syntax error the value is 0, on a range
\* error (more than 32 bits) it is 2^32 - 1
ParseUint(s) ==
    IF s = <<>> \/ \E i \in 1..Len(s) : ~IsHexChar(s[i])
    THEN [err |-> TRUE, val |-> U64Zero]
    ELSE IF \E i \in 1..Len(s) : i <= Len(s) - 8 /\ HexVal(s[i]) # 0
    THEN [err |-> TRUE, val |-> [i \in 1..16 |-> IF i <= 8 THEN 0 ELSE 15]]
    ELSE [err |-> FALSE,
          val |-> [i \in 1..16 |->
                      IF i <= 16 - Len(s) THEN 0 ELSE HexVal(s[i - (16 - Len(s))])]]

\* the borrow that digit i of x - y takes from digit i - 1
RECURSIVE Borrow(_, _, _)
Borrow(x, y, i) ==
    IF i > 16 THEN 0
    ELSE IF x[i] - y[i] - Borrow(x, y, i + 1) < 0 THEN 1 ELSE 0

\* x - y of two uint64, wrapping at 2^64
U64Sub(x, y) == [i \in 1..16 |-> (x[i] - y[i] - Borrow(x, y, i + 1)) % 16]

\* the carry that digit i of x + 1 hands to digit i - 1
RECURSIVE Carry(_, _)
Carry(x, i) ==
    IF i > 16 THEN 1
    ELSE IF x[i] + Carry(x, i + 1) > 15 THEN 1 ELSE 0

\* x + 1 of a uint64, wrapping at 2^64
U64Inc(x) == [i \in 1..16 |-> (x[i] + Carry(x, i + 1)) % 16]

\* x < 0 of a uint64: an unsigned value is never negative
U64Negative(x) == FALSE

\* fmt.Sprintf("%06X", x): upper-case digits without leading zeros, at least 6
RECURSIVE Sprintf06X(_)
Sprintf06X(x) ==
    IF Len(x) > 6 /\ x[1] = 0 THEN Sprintf06X(Tail(x))
    ELSE [i \in 1..Len(x) |-> UpperDigits[x[i] + 1]]

-----------------------------------------------------------------------------
(* The single-line encoders                                                *)

Space == <<" ">>

\* what a call comes to: it returns ("ok"), panics ("panic", which main
\* recovers) or ends the process ("exit"); err is the class of the failure
Ok(ls, tmp) == [end |-> "ok", lines |-> ls, tmp |-> tmp, err |-> "none"]

Panic(e, tmp) == [end |-> "panic", lines |-> <<>>, tmp |-> tmp, err |-> e]

Exit(e, tmp) == [end |-> "exit", lines |-> <<>>, tmp |-> tmp, err |-> e]

\* address[2:] panics at run time when address has fewer than 2 characters
generateReplaceCodeLine(address, value) ==
    <<"0", "4">> \o ToUpper(DropFirst(address, 2)) \o Space \o ToUpper(value)

addLineAnnotation(line, annotation) ==
    IF annotation = <<>> THEN line ELSE line \o <<" ", "#">> \o annotation

\* a faulty LinkedDiff that adds 2, which C10 must tell from the code
LinkedDiffPlusTwo(diff, shouldLink) == IF shouldLink THEN U64Inc(U64Inc(diff)) ELSE diff

\* if shouldLink { addressDiff += 1 }
LinkedDiff(diff, shouldLink) == IF shouldLink THEN U64Inc(diff) ELSE diff

\* the err of the first ParseUint is overwritten by the second: only a
\* malformed targetAddress panics, a malformed address counts as 0
generateBranchCodeLine(address, targetAddress, shouldLink) ==
    IF Len(address) < 2 \/ Len(targetAddress) < 2 THEN Panic("FormatError", {})
    ELSE
    LET addressUint       == ParseUint(DropFirst(address, 2))
        targetAddressUint == ParseUint(DropFirst(targetAddress, 2))
        addressDiff       == U64Sub(targetAddressUint.val, addressUint.val)
        prefix            == IF U64Negative(addressDiff) THEN <<"4", "B">> ELSE <<"4", "8">>
        addressDiffStr    == Sprintf06X(LinkedDiff(addressDiff, shouldLink))
        lastSix           == DropFirst(addressDiffStr, Len(addressDiffStr) - 6)
    IN  IF targetAddressUint.err THEN Panic("FormatError", {})
        ELSE Ok(<< <<"0", "4">> \o ToUpper(DropFirst(address, 2)) \o Space
                     \o prefix \o lastSix >>, {})

-----------------------------------------------------------------------------
(* The file system and the assembler                                       *)

AsmTmp == "asm-to-compile.asm"

AOut == "a.out"

Asm(n) == <<n, ".", "a", "s", "m">>

Bin(n) == <<n, ".", "b", "i", "n">>

\* filepath.Join(folder, name)
Join(folder, name) == folder \o <<"/">> \o name

\* what becomes of compile(file), decided by the file and the tools:
\* the source cannot be read, the temporary file cannot be written, the
\* assembler fails, objcopy fails, a.out cannot be read, a.out holds no
\* .symtab marker (windows), or all goes well
Fate(file) ==
    CASE file = Asm("u") -> "unreadable"
      [] file = Asm("w") -> "tmpUnwritable"
      [] file = Asm("x") -> "asFails"
      [] file = Asm("y") -> "objcopyFails"
      [] file = Asm("z") -> "aoutUnreadable"
      [] file = Asm("m") -> "noMarker"
      [] file = Bin("n") -> "unreadable"
      [] OTHER -> "ok"

Nop == <<96, 0, 0, 0>>

Blr == <<78, 128, 0, 32>>

Mflr == <<124, 8, 2, 166>>

\* the bytes of a binary file, or the machine code the assembler makes of a source
Code(file) ==
    CASE file = Asm("a") -> Mflr
      [] file = Asm("b") -> Mflr \o Blr
      [] file = Asm("c") -> Mflr \o Nop \o Blr
      [] file = Asm("e") -> <<>>
      [] file = Bin("k") -> <<124, 8, 2, 166, 78>>
      [] file = Bin("l") -> Blr \o Nop
      [] file = Join(<<"d">>, Asm("p")) -> Blr \o Mflr
      [] file = Join(Join(<<"d">>, <<"s">>), Asm("t")) -> Blr
      [] OTHER -> Nop

\* ioutil.ReadDir(folder): the entries sorted by name
Dir(folder) ==
    CASE folder = <<"d">> ->
            [err |-> FALSE,
             entries |-> << [name |-> Asm("p"), isDir |-> FALSE],
                            [name |-> <<"r", ".", "t", "x", "t">>, isDir |-> FALSE],
                            [name |-> <<"s">>, isDir |-> TRUE] >>]
      [] folder = Join(<<"d">>, <<"s">>) ->
            [err |-> FALSE, entries |-> << [name |-> Asm("t"), isDir |-> FALSE] >>]
      [] folder = <<"f">> ->
            [err |-> FALSE, entries |-> << [name |-> Asm("v"), isDir |-> FALSE] >>]
      [] folder = <<"g">> ->
            [err |-> FALSE, entries |-> << [name |-> Asm("n"), isDir |-> FALSE] >>]
      [] folder = <<"i">> ->
            [err |-> FALSE, entries |-> << [name |-> Asm("o"), isDir |-> FALSE] >>]
      [] folder = <<"j">> ->
            [err |-> FALSE, entries |-> << [name |-> Asm("x"), isDir |-> FALSE] >>]
      [] OTHER -> [err |-> TRUE, entries |-> <<>>]

\* os.Open(filePath) succeeds
Openable(filePath) == filePath # Join(<<"i">>, Asm("o"))

\* the first line of a source file in a folder
FirstLine(filePath) ==
    CASE filePath = Join(<<"d">>, Asm("p")) ->
            <<"#", " ">> \o <<"8", "0", "0", "0", "3", "a", "b", "c">>
      [] filePath = Join(Join(<<"d">>, <<"s">>), Asm("t")) ->
            <<"8", "0", "0", "0", "5", "6", "7", "8">>
      [] filePath = Join(<<"f">>, Asm("v")) -> <<"#", "8", "0">>
      [] filePath = Join(<<"g">>, Asm("n")) ->
            <<"#", " ", "i", "n", "j", "e", "c", "t", " ", "i", "t">>
      [] OTHER -> <<"8", "0", "0", "0", "0", "0", "0", "0">>

\* the index of the last "." of name, 0 when there is none
RECURSIVE LastDot(_, _)
LastDot(name, i) ==
    IF i = 0 THEN 0
    ELSE IF name[i] = "." THEN i
    ELSE IF name[i] = "/" THEN 0
    ELSE LastDot(name, i - 1)

\* filepath.Ext(name)
Ext(name) ==
    IF LastDot(name, Len(name)) = 0 THEN <<>>
    ELSE SubSeq(name, LastDot(name, Len(name)), Len(name))

\* compile(file) with the temporary files tmp in the working directory. The
\* deferred os.Remove calls run on return and on panic, never on os.Exit; the
\* one of asm-to-compile.asm is deferred only once the file has been written.
\* A WriteFile that fails may have created the file; an assembler that fails
\* may leave a.out.
compile(file, os, tmp) ==
    LET fate    == Fate(file)
        staged  == tmp \cup {AsmTmp}
        cleaned == tmp \ {AsmTmp, AOut}
    IN  IF fate = "unreadable" THEN {Panic("IOError", tmp \ {AOut})}
        ELSE IF fate = "tmpUnwritable"
        THEN {Panic("IOError", (tmp \cup left) \ {AOut}) : left \in {{}, {AsmTmp}}}
        ELSE IF os = "windows"
        THEN IF fate = "asFails"
             THEN {Exit("CompileError", staged \cup left) : left \in {{}, {AOut}}}
             ELSE IF fate \in {"aoutUnreadable", "noMarker"}
             THEN {Panic("CompileError", cleaned)}
             ELSE {[Ok(<<>>, cleaned) EXCEPT !.lines = Code(file)]}
        ELSE IF os \in {"linux", "darwin"}
        THEN IF fate = "asFails"
             THEN {Exit("CompileError", staged \cup left) : left \in {{}, {AOut}}}
             ELSE IF fate = "objcopyFails"
             THEN {Exit("CompileError", staged \cup {AOut})}
             ELSE IF fate = "aoutUnreadable"
             THEN {Panic("CompileError", cleaned)}
             ELSE {[Ok(<<>>, cleaned) EXCEPT !.lines = Code(file)]}
        ELSE {Panic("ConfigError", cleaned)}

-----------------------------------------------------------------------------
(* The multi-line encoders                                                 *)

\* fmt.Sprintf("%08X", n) for 0 <= n < 2^31
Sprintf08X(n) == [i \in 1..8 |-> UpperDigits[((n \div (16 ^ (8 - i))) % 16) + 1]]

\* what lies behind the end of a byte slice: nothing (its capacity is its
\* length, and slicing further panics) or bytes of the array it was cut from
FillBytes == {0, 46}

Spare == {<<>>} \cup {<<f>> : f \in FillBytes}

\* for i := 0; i < len(instructions); i += 8: one line of two words from
\* instructions[i : i+4] and instructions[i+4 : i+8]
RecordLines(instructions, spare) ==
    LET At(k) == IF k <= Len(instructions) THEN instructions[k] ELSE spare[1]
        Word(k) == ToUpper(EncodeToString(<<At(k), At(k + 1), At(k + 2), At(k + 3)>>))
    IN  [r \in 1..((Len(instructions) + 7) \div 8) |->
            Word(8 * r - 7) \o Space \o Word(8 * r - 3)]

\* the header line and the record lines, when the slices can be taken
Block(header, instructions, tmp) ==
    { IF Len(instructions) % 8 # 0 /\ spare = <<>>
      THEN Panic("FormatError", tmp)
      ELSE Ok(<<header>> \o RecordLines(instructions, spare), tmp) : spare \in Spare }

\* a faulty PadInjection that appends no terminator record, which C9 must
\* tell from the code
PadInjectionNoTerminator(instructions) ==
    IF Len(instructions) % 8 = 0 THEN instructions
    ELSE instructions \o <<0, 0, 0, 0>>

\* Fixes code to always end with 0x00000000 and have an even number of words
PadInjection(instructions) ==
    IF Len(instructions) % 8 = 0 THEN instructions \o <<96, 0, 0, 0, 0, 0, 0, 0>>
    ELSE instructions \o <<0, 0, 0, 0>>

\* Fixes code to have an even number of words
PadBlock(instructions) ==
    IF Len(instructions) % 8 # 0 THEN instructions \o <<96, 0, 0, 0>>
    ELSE instructions

\* generateInjectionCodeLines once compile has returned instructions
InjectionLines(address, instructions, tmp) ==
    IF Len(instructions) = 0 THEN {Panic("CompileError", tmp)}
    ELSE IF Len(address) < 2 THEN {Panic("FormatError", tmp)}
    ELSE IF Len(instructions) = 4
    THEN {Ok(<<generateReplaceCodeLine(address, EncodeToString(instructions))>>, tmp)}
    ELSE LET padded == PadInjection(instructions)
         IN  Block(<<"C", "2">> \o ToUpper(DropFirst(address, 2)) \o Space
                       \o Sprintf08X(Len(padded) \div 8),
                   padded, tmp)

\* generateReplaceCodeBlockLines and generateReplaceBinaryLines once the
\* instructions are read
BlockLines(address, instructions, tmp) ==
    IF Len(address) < 2 THEN {Panic("FormatError", tmp)}
    ELSE LET padded == PadBlock(instructions)
         IN  Block(<<"0", "6">> \o ToUpper(DropFirst(address, 2)) \o Space
                       \o Sprintf08X(Len(padded)),
                   padded, tmp)

\* a compile that panics or exits ends the call, one that returns hands on its bytes
generateInjectionCodeLines(address, file, os, tmp) ==
    UNION { IF c.end = "ok" THEN InjectionLines(address, c.lines, c.tmp) ELSE {c} :
               c \in compile(file, os, tmp) }

generateReplaceCodeBlockLines(address, file, os, tmp) ==
    UNION { IF c.end = "ok" THEN BlockLines(address, c.lines, c.tmp) ELSE {c} :
               c \in compile(file, os, tmp) }

generateReplaceBinaryLines(address, file, tmp) ==
    IF Fate(file) = "unreadable" THEN {Panic("IOError", tmp)}
    ELSE BlockLines(address, Code(file), tmp)

\* lines[0] = addLineAnnotation(lines[0], annotation)
AnnotateFirst(ls, annotation) ==
    <<addLineAnnotation(Head(ls), annotation)>> \o Tail(ls)

RECURSIVE generateInjectionFolderLines(_, _, _, _)
RECURSIVE InjectFiles(_, _, _, _, _, _)
RECURSIVE InjectSubFolders(_, _, _, _, _, _)

\* for _, file := range contents: the files of extension .asm, from entry k on
InjectFiles(folder, contents, k, os, acc, tmp) ==
    IF k > Len(contents) THEN {Ok(acc, tmp)}
    ELSE IF Ext(contents[k].name) # <<".", "a", "s", "m">>
    THEN InjectFiles(folder, contents, k + 1, os, acc, tmp)
    ELSE
    LET filePath  == Join(folder, contents[k].name)
        firstLine == FirstLine(filePath)
        address   == DropFirst(firstLine, Len(firstLine) - 8)
    IN  IF ~Openable(filePath) THEN {Panic("IOError", tmp)}
        ELSE IF Len(firstLine) < 8 THEN {Panic("ConfigError", tmp)}
        ELSE IF DecodeString(address).err THEN {Panic("ConfigError", tmp)}
        ELSE UNION { IF o.end = "ok"
                     THEN InjectFiles(folder, contents, k + 1, os,
                                      acc \o AnnotateFirst(o.lines, filePath), o.tmp)
                     ELSE {o} :
                        o \in generateInjectionCodeLines(address, filePath, os, tmp) }

\* for _, file := range contents: the sub-directories, from entry k on
InjectSubFolders(folder, contents, k, os, acc, tmp) ==
    IF k > Len(contents) THEN {Ok(acc, tmp)}
    ELSE IF ~contents[k].isDir
    THEN InjectSubFolders(folder, contents, k + 1, os, acc, tmp)
    ELSE UNION { IF o.end = "ok"
                 THEN InjectSubFolders(folder, contents, k + 1, os, acc \o o.lines, o.tmp)
                 ELSE {o} :
                    o \in generateInjectionFolderLines(Join(folder, contents[k].name),
                                                       TRUE, os, tmp) }

generateInjectionFolderLines(folder, isRecursive, os, tmp) ==
    LET contents == Dir(folder)
    IN  IF contents.err THEN {Panic("IOError", tmp)}
        ELSE UNION { IF o.end = "ok" /\ isRecursive
                     THEN InjectSubFolders(folder, contents.entries, 1, os, o.lines, o.tmp)
                     ELSE {o} :
                        o \in InjectFiles(folder, contents.entries, 1, os, <<>>, tmp) }

-----------------------------------------------------------------------------
(* generateHeaderLines and generateCodeLines                               *)

\* strings.Join(elems, sep)
RECURSIVE StringsJoin(_, _)
StringsJoin(elems, sep) ==
    IF elems = <<>> THEN <<>>
    ELSE IF Len(elems) = 1 THEN elems[1]
    ELSE elems[1] \o sep \o StringsJoin(Tail(elems), sep)

generateHeaderLines(desc) ==
    << <<"$">> \o desc.Name \o <<" ", "[">> \o StringsJoin(desc.Authors, <<",", " ">>)
          \o <<"]">> >>
    \o [i \in 1..Len(desc.Description) |-> <<"*">> \o desc.Description[i]]

\* a faulty Annotate that annotates every line, which C7 must tell from the code
AnnotateEvery(outcomes, annotation) ==
    { IF o.end = "ok"
      THEN [o EXCEPT !.lines = [i \in 1..Len(o.lines) |->
                                   addLineAnnotation(o.lines[i], annotation)]]
      ELSE o : o \in outcomes }

\* lines[0] = addLineAnnotation(lines[0], geckoCode.Annotation) on the calls that return
Annotate(outcomes, annotation) ==
    { IF o.end = "ok" THEN [o EXCEPT !.lines = AnnotateFirst(o.lines, annotation)] ELSE o :
        o \in outcomes }

\* one pass of the loop of generateCodeLines: the lines of one geckoCode
generateCodeLinesCase(geckoCode, os, tmp) ==
    CASE geckoCode.Type = "replace" ->
            IF Len(geckoCode.Address) < 2 THEN {Panic("FormatError", tmp)}
            ELSE {Ok(<<addLineAnnotation(
                          generateReplaceCodeLine(geckoCode.Address, geckoCode.Value),
                          geckoCode.Annotation)>>, tmp)}
      [] geckoCode.Type = "inject" ->
            Annotate(generateInjectionCodeLines(geckoCode.Address, geckoCode.SourceFile,
                                                os, tmp),
                     geckoCode.Annotation)
      [] geckoCode.Type = "replaceCodeBlock" ->
            Annotate(generateReplaceCodeBlockLines(geckoCode.Address, geckoCode.SourceFile,
                                                   os, tmp),
                     geckoCode.Annotation)
      [] geckoCode.Type = "replaceBinary" ->
            Annotate(generateReplaceBinaryLines(geckoCode.Address, geckoCode.SourceFile, tmp),
                     geckoCode.Annotation)
      [] geckoCode.Type \in {"branch", "branchAndLink"} ->
            LET o == generateBranchCodeLine(geckoCode.Address, geckoCode.TargetAddress,
                                            geckoCode.Type = "branchAndLink")
            IN  IF o.end = "ok"
                THEN {Ok(<<addLineAnnotation(o.lines[1], geckoCode.Annotation)>>, tmp)}
                ELSE {[o EXCEPT !.tmp = tmp]}
      [] geckoCode.Type = "injectFolder" ->
            generateInjectionFolderLines(geckoCode.SourceFolder, geckoCode.IsRecursive,
                                         os, tmp)
      [] OTHER -> {Ok(<<>>, tmp)}

-----------------------------------------------------------------------------
(* writeOutput                                                             *)

GctHeader == <<0, 208, 192, 222, 0, 208, 192, 222>>

GctFooter == <<240, 0, 0, 0, 0, 0, 0, 0>>

\* a faulty GctBytes that skips lines of exactly 17 characters, which C6 must
\* tell from the code
RECURSIVE GctBytesOffByOne(_, _)
GctBytesOffByOne(out, k) ==
    IF k > Len(out) THEN <<>>
    ELSE LET line == out[k]
             lineBytes == DecodeString(SubSeq(line, 1, 8) \o SubSeq(line, 10, 17))
         IN  IF Len(line) < 18 THEN GctBytesOffByOne(out, k + 1)
             ELSE IF lineBytes.err THEN GctBytesOffByOne(out, k + 1)
             ELSE lineBytes.bytes \o GctBytesOffByOne(out, k + 1)

\* for _, line := range output, from line k on
RECURSIVE GctBytes(_, _)
GctBytes(out, k) ==
    IF k > Len(out) THEN <<>>
    ELSE LET line == out[k]
             lineBytes == DecodeString(SubSeq(line, 1, 8) \o SubSeq(line, 10, 17))
         IN  IF Len(line) < 17 THEN GctBytes(out, k + 1)
             ELSE IF lineBytes.err THEN GctBytes(out, k + 1)
             ELSE lineBytes.bytes \o GctBytes(out, k + 1)

\* the bytes writeGctOutput hands to ioutil.WriteFile
writeGctOutput(out) == GctHeader \o GctBytes(out, 1) \o GctFooter

\* the text writeTextOutput hands to ioutil.WriteFile
writeTextOutput(out) == StringsJoin(out, <<"\n">>)

-----------------------------------------------------------------------------
(* Calls of generateBranchCodeLine on pairs of addresses                   *)

Addr(a, b, c, d, e, f) == <<"8", "0", a, b, c, d, e, f>>

AddrSet ==
    { Addr("0","0","0","0","0","0"), Addr("0","0","0","0","0","4"),
      Addr("0","0","1","2","3","4"), Addr("0","0","a","b","c","d"),
      Addr("7","F","F","F","F","C"), Addr("8","0","0","0","0","0"),
      Addr("F","F","F","F","F","C"), Addr("F","F","F","F","F","F"),
      Addr("0","0","G","0","0","0") }

InitRunIdle ==
    /\ pc = "idle" /\ args = <<>> /\ platform = "linux"
    /\ config = [status |-> "missing", OutputFiles |-> <<>>, Codes |-> <<>>]
    /\ codeIdx = 0 /\ buildIdx = 0 /\ result = <<>> /\ lines = <<>>
    /\ output = <<>> /\ tmpFiles = {} /\ fileIdx = 0 /\ written = <<>> /\ errors = <<>>
    /\ exitStatus = <<>>

InitBranch ==
    /\ branchCall \in [address : AddrSet, targetAddress : AddrSet,
                       plain : {<<>>}, linked : {<<>>}]
    /\ packCall = <<>>
    /\ InitRunIdle

\* generateBranchCodeLine(address, targetAddress, false)
CallBranch ==
    /\ branchCall # <<>> /\ branchCall.plain = <<>>
    /\ branchCall' = [branchCall EXCEPT !.plain =
           <<generateBranchCodeLine(branchCall.address, branchCall.targetAddress, FALSE)>>]
    /\ UNCHANGED <<packCall, runVars>>

\* generateBranchCodeLine(address, targetAddress, true)
CallBranchAndLink ==
    /\ branchCall # <<>> /\ branchCall.linked = <<>>
    /\ branchCall' = [branchCall EXCEPT !.linked =
           <<generateBranchCodeLine(branchCall.address, branchCall.targetAddress, TRUE)>>]
    /\ UNCHANGED <<packCall, runVars>>

NextBranch == CallBranch \/ CallBranchAndLink

SpecBranch == InitBranch /\ [][NextBranch]_vars

-----------------------------------------------------------------------------
(* Calls of the multi-line encoders on byte sequences                      *)

MaxWords == 8

WordSet == {Nop, Mflr}

\* the bytes of a file that ends within a word
RaggedTails == {<<>>, <<78>>, <<78, 128>>, <<78, 128, 0>>}

SeqsUpTo(S, n) == UNION {[1..k -> S] : k \in 0..n}

InstructionSet ==
    {Flatten(ws) \o tail : ws \in SeqsUpTo(WordSet, MaxWords), tail \in RaggedTails}

InitPack ==
    /\ packCall \in [mode : {"inject", "replace"},
                     address : {Addr("0","0","1","2","3","4"), Addr("0","0","a","b","c","d")},
                     instructions : InstructionSet,
                     packed : {<<>>}, ret : {<<>>}]
    /\ branchCall = <<>>
    /\ InitRunIdle

\* generateInjectionCodeLines on the instructions compile returned
CallInjection ==
    /\ packCall # <<>> /\ packCall.ret = <<>> /\ packCall.mode = "inject"
    /\ \E o \in InjectionLines(packCall.address, packCall.instructions, {}) :
          packCall' = [packCall EXCEPT
                          !.ret = <<o>>,
                          !.packed = IF Len(packCall.instructions) \in {0, 4}
                                     THEN packCall.instructions
                                     ELSE PadInjection(packCall.instructions)]
    /\ UNCHANGED <<branchCall, runVars>>

\* generateReplaceBinaryLines on the contents of the file
CallReplace ==
    /\ packCall # <<>> /\ packCall.ret = <<>> /\ packCall.mode = "replace"
    /\ \E o \in BlockLines(packCall.address, packCall.instructions, {}) :
          packCall' = [packCall EXCEPT
                          !.ret = <<o>>, !.packed = PadBlock(packCall.instructions)]
    /\ UNCHANGED <<branchCall, runVars>>

NextPack == CallInjection \/ CallReplace

SpecPack == InitPack /\ [][NextPack]_vars

-----------------------------------------------------------------------------
(* The configurations main is run on                                       *)

MaxCodes == 2

MaxBuild == 2

MaxOutputs == 2

Nop3 == <<"n", "o", "p">>

Annotations == {<<>>, Nop3}

A1 == Addr("0","0","1","2","3","4")

T1 == Addr("0","0","0","0","0","4")

GeckoCode(type, address, target, annotation, source, value) ==
    [Type |-> type, Address |-> address, TargetAddress |-> target,
     Annotation |-> annotation, IsRecursive |-> FALSE, SourceFile |-> source,
     SourceFolder |-> <<>>, Value |-> value]

FolderCode(folder, isRecursive, annotation) ==
    [Type |-> "injectFolder", Address |-> <<>>, TargetAddress |-> <<>>,
     Annotation |-> annotation, IsRecursive |-> isRecursive, SourceFile |-> <<>>,
     SourceFolder |-> folder, Value |-> <<>>]

Values ==
    { <<"6","0","0","0","a","b","c","d">>, <<"6","0","0","0">>,
      <<"6","0","0","0","0","0","0","0","f","f">> }

AsmFiles == {Asm(n) : n \in {"a", "b", "c", "e", "u", "w", "x", "y", "z", "m"}}

EntrySet ==
    {GeckoCode("replace", A1, <<>>, a, <<>>, v) : a \in Annotations, v \in Values}
    \cup {GeckoCode("replace", <<"8">>, <<>>, <<>>, <<>>, <<"6","0","0","0">>)}
    \cup {GeckoCode("inject", A1, <<>>, a, f, <<>>) : a \in Annotations, f \in AsmFiles}
    \cup {GeckoCode("replaceCodeBlock", A1, <<>>, a, f, <<>>) :
             a \in Annotations, f \in {Asm("c"), Asm("b"), Asm("x")}}
    \cup {GeckoCode("replaceBinary", A1, <<>>, a, f, <<>>) :
             a \in Annotations, f \in {Bin("l"), Bin("k"), Bin("n")}}
    \cup {GeckoCode(t, p[1], p[2], a, <<>>, <<>>) :
             t \in {"branch", "branchAndLink"}, a \in Annotations,
             p \in {<<A1, T1>>, <<T1, A1>>, <<A1, Addr("0","0","G","0","0","0")>>}}
    \cup {FolderCode(d, r, a) :
             d \in {<<"d">>, <<"f">>, <<"g">>, <<"h">>, <<"i">>, <<"j">>},
             r \in BOOLEAN, a \in Annotations}
    \cup {GeckoCode("comment", A1, <<>>, Nop3, <<>>, <<>>)}

CoreEntries ==
    { GeckoCode("replace", A1, <<>>, Nop3, <<>>, <<"6","0","0","0","a","b","c","d">>),
      GeckoCode("inject", T1, <<>>, Nop3, Asm("c"), <<>>) }

Headers ==
    { [Name |-> <<"N">>, Authors |-> << <<"A">>, <<"B", "c">> >>,
       Description |-> << <<"D">>, <<"0","4","0","0","1","2","3","4"," ",
                                      "6","0","0","0","0","0","0","0">> >>],
      [Name |-> <<"M">>, Authors |-> <<>>, Description |-> <<>>] }

CodeDescription(header, build) ==
    [Name |-> header.Name, Authors |-> header.Authors,
     Description |-> header.Description, Build |-> build]

Gct(n) == <<n, ".", "g", "c", "t">>

Txt(n) == <<n, ".", "t", "x", "t">>

OutFileSet == {Gct("o"), Txt("o"), Txt("q")}

\* ioutil.WriteFile(outputFile, ...) succeeds
Writable(outputFile) == outputFile # Txt("q")

Config(outputFiles, codes) ==
    [status |-> "ok", OutputFiles |-> outputFiles, Codes |-> codes]

OneCode == CHOOSE h \in Headers : h.Authors # <<>>

\* one code of one geckoCode of every kind, on every platform
EveryKind ==
    { [args |-> <<"build">>, platform |-> os,
       config |-> Config(<<Gct("o"), Txt("o")>>, <<CodeDescription(OneCode, <<e>>)>>)] :
        e \in EntrySet, os \in {"windows", "linux", "plan9"} }

\* the codes of the lists: every build of up to MaxBuild geckoCodes under one
\* header, and the builds of at most one geckoCode under every header
DescriptionSet ==
    {CodeDescription(OneCode, b) : b \in SeqsUpTo(CoreEntries, MaxBuild)}
    \cup {CodeDescription(h, b) : h \in Headers, b \in {<<>>} \cup {<<e>> : e \in CoreEntries}}

\* lists of codes of lists of geckoCodes
EveryOrder ==
    { [args |-> <<"build">>, platform |-> "linux",
       config |-> Config(<<Gct("o"), Txt("o")>>, codes)] :
        codes \in SeqsUpTo(DescriptionSet, MaxCodes) }

\* lists of output files
EveryTarget ==
    { [args |-> <<"build">>, platform |-> "linux", config |-> Config(fs, codes)] :
        fs \in SeqsUpTo(OutFileSet, MaxOutputs),
        codes \in {<<>>, <<CodeDescription(OneCode, <<CHOOSE e \in CoreEntries :
                                                          e.Type = "replace">>)>>} }

\* command lines and config files that stop main before buildBody
EveryStart ==
    { [args |-> a, platform |-> "linux",
       config |-> [status |-> st, OutputFiles |-> <<Txt("o")>>, Codes |-> <<>>]] :
        a \in {<<>>, <<"run">>, <<"build">>}, st \in {"ok", "missing", "malformed"} }

Scenarios == EveryKind \cup EveryOrder \cup EveryTarget \cup EveryStart

-----------------------------------------------------------------------------
(* main                                                                    *)

Init ==
    /\ branchCall = <<>> /\ packCall = <<>>
    /\ \E s \in Scenarios : args = s.args /\ platform = s.platform /\ config = s.config
    /\ pc = "main"
    /\ codeIdx = 0 /\ buildIdx = 0 /\ result = <<>> /\ lines = <<>>
    /\ output = <<>> /\ tmpFiles = {} /\ fileIdx = 0 /\ written = <<>> /\ errors = <<>>
    /\ exitStatus = <<>>

\* the status of a process whose main returns after the deferred recover()
\* has swallowed the panic
RecoveredStatus == 0

\* a log.Panic or a run-time panic below main: the deferred function of main
\* recovers it and main returns
Recovered(err) ==
    /\ errors' = Append(errors, err)
    /\ pc' = "done"
    /\ exitStatus' = <<RecoveredStatus>>

\* os.Exit(1)
Exited(err) ==
    /\ errors' = Append(errors, err)
    /\ pc' = "done"
    /\ exitStatus' = <<1>>

\* main up to the call of buildBody: the command line, readConfigFile, outputFiles
Start ==
    /\ pc = "main"
    /\ IF Len(args) < 1 THEN Recovered("ConfigError")
       ELSE IF args[1] # "build" THEN Recovered("ConfigError")
       ELSE IF config.status = "missing" THEN Recovered("IOError")
       ELSE IF config.status = "malformed" THEN Recovered("ConfigError")
       ELSE IF Len(config.OutputFiles) < 1 THEN Recovered("ConfigError")
       ELSE /\ pc' = IF config.Codes = <<>> THEN "writeOutput" ELSE "buildBody"
            /\ UNCHANGED <<errors, exitStatus>>
    /\ UNCHANGED <<branchCall, packCall, args, platform, config, codeIdx, buildIdx,
                   result, lines, output, tmpFiles, fileIdx, written>>

\* buildBody, one code: the header lines, and generateCodeLines is entered
BuildHeader ==
    /\ pc = "buildBody"
    /\ output' = output \o generateHeaderLines(config.Codes[codeIdx + 1])
    /\ result' = <<>> /\ lines' = <<>> /\ buildIdx' = 0
    /\ pc' = "generateCodeLines"
    /\ UNCHANGED <<branchCall, packCall, args, platform, config, codeIdx, tmpFiles,
                   fileIdx, written, errors, exitStatus>>

\* generateCodeLines, one geckoCode
EncodeGeckoCode ==
    /\ pc = "generateCodeLines"
    /\ buildIdx < Len(config.Codes[codeIdx + 1].Build)
    /\ \E o \in generateCodeLinesCase(config.Codes[codeIdx + 1].Build[buildIdx + 1],
                                      platform, tmpFiles) :
          /\ tmpFiles' = o.tmp
          /\ IF o.end = "ok"
             THEN /\ lines' = o.lines
                  /\ result' = result \o o.lines
                  /\ buildIdx' = buildIdx + 1
                  /\ UNCHANGED <<pc, errors, exitStatus>>
             ELSE /\ IF o.end = "panic" THEN Recovered(o.err) ELSE Exited(o.err)
                  /\ UNCHANGED <<lines, result, buildIdx>>
    /\ UNCHANGED <<branchCall, packCall, args, platform, config, codeIdx, output,
                   fileIdx, written>>

\* a faulty CodeLinesAndSeparator without the blank line, which C8 must tell
\* from the code
CodeLinesNoSeparator(codeLines) == codeLines

\* what buildBody appends to output once generateCodeLines has returned
CodeLinesAndSeparator(codeLines) == codeLines \o << <<>> >>

\* generateCodeLines returns; buildBody appends the code lines and the blank line
BuildCode ==
    /\ pc = "generateCodeLines"
    /\ buildIdx = Len(config.Codes[codeIdx + 1].Build)
    /\ output' = output \o CodeLinesAndSeparator(result)
    /\ codeIdx' = codeIdx + 1
    /\ pc' = IF codeIdx + 1 = Len(config.Codes) THEN "writeOutput" ELSE "buildBody"
    /\ UNCHANGED <<branchCall, packCall, args, platform, config, buildIdx, result,
                   lines, tmpFiles, fileIdx, written, errors, exitStatus>>

\* writeOutput(file): the error of ioutil.WriteFile is dropped
WriteOutput ==
    /\ pc = "writeOutput"
    /\ fileIdx < Len(config.OutputFiles)
    /\ LET file == config.OutputFiles[fileIdx + 1]
           data == IF Ext(file) = <<".", "g", "c", "t">> THEN writeGctOutput(output)
                   ELSE writeTextOutput(output)
       IN  IF Writable(file)
           THEN /\ written' = Append(written, [file |-> file, data |-> data])
                /\ UNCHANGED errors
           ELSE /\ errors' = Append(errors, "IOError")
                /\ UNCHANGED written
    /\ fileIdx' = fileIdx + 1
    /\ UNCHANGED <<branchCall, packCall, pc, args, platform, config, codeIdx, buildIdx,
                   result, lines, output, tmpFiles, exitStatus>>

\* main returns
Return ==
    /\ pc = "writeOutput"
    /\ fileIdx = Len(config.OutputFiles)
    /\ pc' = "done"
    /\ exitStatus' = <<0>>
    /\ UNCHANGED <<branchCall, packCall, args, platform, config, codeIdx, buildIdx,
                   result, lines, output, tmpFiles, fileIdx, written, errors>>

Next == Start \/ BuildHeader \/ EncodeGeckoCode \/ BuildCode \/ WriteOutput \/ Return

Spec == Init /\ [][Next]_vars

-----------------------------------------------------------------------------
(* Properties of generateBranchCodeLine (SpecBranch)                       *)

\* the number a string of hex digits denotes
RECURSIVE HexNum(_)
HexNum(s) ==
    IF s = <<>> THEN 0
    ELSE 16 * HexNum(SubSeq(s, 1, Len(s) - 1)) + HexVal(s[Len(s)])

WellFormed(address) == Len(address) = 8 /\ \A i \in 1..8 : IsHexChar(address[i])

\* the address without its first 2 characters, as a number
Truncated(address) == HexNum(DropFirst(address, 2))

BranchReturned(o) == o # <<>> /\ o[1].end = "ok"

Tag(line) == SubSeq(line, 1, 8)

Prefix(line) == SubSeq(line, 10, 11)

Displacement(line) == HexNum(SubSeq(line, 12, 17))

BranchCalls == IF branchCall = <<>> THEN {} ELSE {branchCall.plain, branchCall.linked}

\* C1: for 8-hex-digit addresses whose truncated values satisfy target < base,
\* the line of Branch and of BranchLink has the prefix 4B; the prefix is 48
\* only when target >= base.
C1_BackwardBranchHasPrefix4B ==
    \A o \in BranchCalls :
        (o # <<>> /\ WellFormed(branchCall.address) /\ WellFormed(branchCall.targetAddress))
        => /\ o[1].end = "ok"
           /\ Truncated(branchCall.targetAddress) < Truncated(branchCall.address)
                => Prefix(o[1].lines[1]) = <<"4", "B">>
           /\ Prefix(o[1].lines[1]) = <<"4", "8">>
                => Truncated(branchCall.targetAddress) >= Truncated(branchCall.address)

\* C10: the displacement field of the BranchLink line is the one of the Branch
\* line plus 1 modulo 2^24, with the same 04<address> tag and the same prefix;
\* when target = base the Branch line has displacement 000000 and prefix 48.
C10_LinkAddsOne ==
    (branchCall # <<>> /\ BranchReturned(branchCall.plain)
        /\ BranchReturned(branchCall.linked))
    => LET plain  == branchCall.plain[1].lines[1]
           linked == branchCall.linked[1].lines[1]
       IN  /\ Len(plain) = 17 /\ Len(linked) = 17
           /\ Displacement(linked) = (Displacement(plain) + 1) % 16777216
           /\ Tag(linked) = Tag(plain)
           /\ Tag(plain) = <<"0", "4">> \o ToUpper(DropFirst(branchCall.address, 2))
           /\ Prefix(linked) = Prefix(plain)
           /\ branchCall.targetAddress = branchCall.address
                => /\ SubSeq(plain, 12, 17) = <<"0", "0", "0", "0", "0", "0">>
                   /\ Prefix(plain) = <<"4", "8">>

\* both calls have returned and the link bit carries out of the 24 bits
C10_Witness ==
    /\ branchCall # <<>>
    /\ BranchReturned(branchCall.plain) /\ BranchReturned(branchCall.linked)
    /\ Displacement(branchCall.plain[1].lines[1]) = 16777215
    /\ Displacement(branchCall.linked[1].lines[1]) = 0

-----------------------------------------------------------------------------
(* Properties of the packing (SpecPack)                                    *)

PackReturned == packCall # <<>> /\ packCall.ret # <<>>

\* C2: for a byte sequence of any length, packing for an injection (lengths
\* other than 0 and 4) and for a block or binary replace yields a byte sequence
\* whose length is divisible by 8, with no error outcome.
C2_PackedLengthDivisibleBy8 ==
    (PackReturned
        /\ (packCall.mode = "inject" => Len(packCall.instructions) \notin {0, 4}))
    => /\ packCall.ret[1].end = "ok"
       /\ Len(packCall.packed) % 8 = 0

\* the bytes the two words of a record line denote
RecordBytes(line) ==
    [j \in 1..8 |->
        LET p == IF j <= 4 THEN 2 * j - 1 ELSE 2 * j
        IN  16 * HexVal(line[p]) + HexVal(line[p + 1])]

\* two words of 8 upper-case hex digits, a space between them
IsRecordLine(line) ==
    /\ Len(line) = 17
    /\ line[9] = " "
    /\ \A i \in (1..8) \cup (10..17) : \E d \in 1..16 : UpperDigits[d] = line[i]

\* C9: for instructions of length L, a multiple of 4: L = 0 is fatal; L = 4
\* gives the one line 04<address> <the 4 bytes>; otherwise a header
\* C2<address> <n> and n record lines, n = L/8 + 1 with the record
\* 60000000 00000000 appended when L mod 8 = 0 and n = (L+4)/8 with the word
\* 00000000 appended otherwise; the last word is 00000000 and the bytes come
\* first, unchanged and in order.
C9_InjectionLines ==
    (PackReturned /\ packCall.mode = "inject" /\ Len(packCall.instructions) % 4 = 0)
    => LET L    == Len(packCall.instructions)
           o    == packCall.ret[1]
           addr == ToUpper(DropFirst(packCall.address, 2))
           n    == IF L % 8 = 0 THEN (L \div 8) + 1 ELSE (L + 4) \div 8
           pad  == IF L % 8 = 0 THEN <<96, 0, 0, 0, 0, 0, 0, 0>> ELSE <<0, 0, 0, 0>>
       IN  IF L = 0 THEN o.end = "panic"
           ELSE IF L = 4
           THEN /\ o.end = "ok"
                /\ Len(o.lines) = 1
                /\ IsRecordLine(o.lines[1])
                /\ Tag(o.lines[1]) = <<"0", "4">> \o addr
                /\ SubSeq(RecordBytes(o.lines[1]), 5, 8) = packCall.instructions
           ELSE /\ o.end = "ok"
                /\ Len(o.lines) = n + 1
                /\ IsRecordLine(o.lines[1])
                /\ Tag(o.lines[1]) = <<"C", "2">> \o addr
                /\ HexNum(SubSeq(o.lines[1], 10, 17)) = n
                /\ \A r \in 2..(n + 1) : IsRecordLine(o.lines[r])
                /\ Flatten([r \in 1..n |-> RecordBytes(o.lines[r + 1])])
                     = packCall.instructions \o pad
                /\ SubSeq(o.lines[n + 1], 10, 17) = <<"0", "0", "0", "0", "0", "0", "0", "0">>
                /\ Len(packCall.packed) = 8 * n
                /\ (L = 32 => Len(packCall.packed) = 40)
                /\ (L = 28 => Len(packCall.packed) = 32)

\* 32 bytes have been packed for an injection into 40
C9_Witness ==
    /\ PackReturned /\ packCall.mode = "inject"
    /\ Len(packCall.instructions) = 32
    /\ packCall.ret[1].end = "ok"
    /\ Len(packCall.ret[1].lines) = 6
    /\ Len(packCall.packed) = 40

-----------------------------------------------------------------------------
(* Properties of a run of main (Spec)                                      *)

\* C3: when a failure of any class happens during a run of main, the process
\* ends with a non-zero exit status, for a log.Panic that main recovers as for
\* an assembler failure in compile.
C3_FailureExitsNonZero ==
    (exitStatus # <<>> /\ errors # <<>>) => exitStatus[1] # 0

\* C4: once any error has occurred, an unwritable output file included, no
\* output file is written afterwards.
C4_NoWriteAfterError == [][errors # <<>> => written' = written]_vars

\* C5: on every exit path of compile (return, panic, process exit) the
\* temporary files asm-to-compile.asm and a.out no longer exist when control
\* leaves compile or the process ends.
C5_TemporariesRemoved == tmpFiles = {}

\* the .gct files written so far
GctWritten ==
    {w \in {written[i] : i \in 1..Len(written)} :
        Len(w.file) >= 4 /\ DropFirst(w.file, Len(w.file) - 4) = <<".", "g", "c", "t">>}

\* at least 17 characters, [0,8) and [9,17) valid hex
Passes(line) ==
    /\ Len(line) >= 17
    /\ \A i \in (1..8) \cup (10..17) : IsHexChar(line[i])

\* a header line, a description line or a blank line
IsNonCode(line) == line = <<>> \/ line[1] \in {"$", "*"}

\* a code line of an 8-hex-digit tag and an 8-hex-digit payload, annotated or not
IsCodeLine(line) ==
    /\ Passes(line)
    /\ line[9] = " "
    /\ Len(line) = 17 \/ (Len(line) >= 19 /\ line[18] = " " /\ line[19] = "#")

\* header, the 8 bytes of every line that passes, footer; no header,
\* description or blank line passes and every code line does
GctLayout(w) ==
    /\ w.data = <<0, 208, 192, 222, 0, 208, 192, 222>>
                  \o Flatten([k \in 1..Len(output) |->
                                 IF Passes(output[k]) THEN RecordBytes(output[k]) ELSE <<>>])
                  \o <<240, 0, 0, 0, 0, 0, 0, 0>>
    /\ \A k \in 1..Len(output) :
          /\ IsNonCode(output[k]) => ~Passes(output[k])
          /\ IsCodeLine(output[k]) => Passes(output[k])

\* C6 as stated: the file is the header, the 8 bytes of every line of at
\* least 17 characters with valid hex at [0,8) and [9,17), and the footer, so
\* that its length is 16 + 8 * (the number of code lines of an 8-hex-digit tag
\* and an 8-hex-digit payload).
C6_GctLengthCountsCodeLines ==
    \A w \in GctWritten :
        /\ GctLayout(w)
        /\ Len(w.data) = 16 + 8 * Cardinality({k \in 1..Len(output) : IsCodeLine(output[k])})

\* C6 as amended: the file is the header, the 8 bytes of every line of at
\* least 17 characters with valid hex at [0,8) and [9,17), and the footer;
\* header, description and blank lines are left out and every code line of
\* an 8-hex-digit tag and payload is in; the length is 16 + 8 * (the number of
\* lines that pass the test), which is the number of such code lines exactly
\* when no other line passes.
C6_GctLengthCountsPassingLines ==
    \A w \in GctWritten :
        LET passing == {k \in 1..Len(output) : Passes(output[k])}
            code    == {k \in 1..Len(output) : IsCodeLine(output[k])}
        IN  /\ GctLayout(w)
            /\ Len(w.data) = 16 + 8 * Cardinality(passing)
            /\ code \subseteq passing
            /\ (passing = code) <=> (Len(w.data) = 16 + 8 * Cardinality(code))

\* a .gct file is written from an output with a header line, a description
\* line shaped like a code line, a blank line and an annotated code line
C6_Witness ==
    \E w \in GctWritten :
        /\ Len(w.data) = 24
        /\ \E k \in 1..Len(output) : output[k] # <<>> /\ output[k][1] = "*"
                                       /\ Len(output[k]) >= 17
        /\ \E k \in 1..Len(output) : IsCodeLine(output[k]) /\ Len(output[k]) > 17

Kinds ==
    {"replace", "inject", "replaceCodeBlock", "replaceBinary", "branch",
     "branchAndLink", "injectFolder"}

\* generateCodeLines has just encoded a geckoCode
Encoded == pc = "generateCodeLines" /\ buildIdx >= 1

LastEncoded == config.Codes[codeIdx + 1].Build[buildIdx]

\* the lines the geckoCode can yield when its Annotation is empty
Unannotated(geckoCode) ==
    {o.lines : o \in {x \in generateCodeLinesCase([geckoCode EXCEPT !.Annotation = <<>>],
                                                   platform, {}) : x.end = "ok"}}

\* ls is base with " #" and the annotation at the end of its first line
FirstLineAnnotated(ls, base, annotation) ==
    /\ Len(ls) = Len(base)
    /\ Len(ls) >= 1
    /\ ls[1] = base[1] \o <<" ", "#">> \o annotation
    /\ \A i \in 2..Len(ls) : ls[i] = base[i]

AnnotationOnFirstLineOnly(geckoCode) ==
    IF geckoCode.Annotation = <<>> THEN lines \in Unannotated(geckoCode)
    ELSE \E base \in Unannotated(geckoCode) :
            FirstLineAnnotated(lines, base, geckoCode.Annotation)

\* C7 as stated: for every kind, injectFolder included, a non-empty Annotation
\* is appended as " #<annotation>" to the first line of the entry and to no
\* other; an empty one changes no line.
C7_EveryKindAnnotatesFirstLine ==
    (Encoded /\ LastEncoded.Type \in Kinds) => AnnotationOnFirstLineOnly(LastEncoded)

\* the path of the first file of extension .asm in the folder
FirstAsmPath(folder) ==
    LET contents == Dir(folder).entries
        k == CHOOSE i \in 1..Len(contents) :
                /\ Ext(contents[i].name) = <<".", "a", "s", "m">>
                /\ \A j \in 1..(i - 1) : Ext(contents[j].name) # <<".", "a", "s", "m">>
    IN  Join(folder, contents[k].name)

\* C7 as amended: for every kind but injectFolder, a non-empty Annotation is
\* appended as " #<annotation>" to the first line of the entry and to no
\* other, and an empty one changes no line; injectFolder ignores the
\* Annotation of the entry and annotates the first line of every file with
\* the path of the file.
C7_AnnotationOnFirstLine ==
    Encoded =>
        /\ LastEncoded.Type \in Kinds \ {"injectFolder"}
             => AnnotationOnFirstLineOnly(LastEncoded)
        /\ LastEncoded.Type = "injectFolder"
             => /\ lines \in Unannotated(LastEncoded)
                /\ LET path == <<" ", "#">> \o FirstAsmPath(LastEncoded.SourceFolder)
                   IN  /\ Len(lines[1]) = 17 + Len(path)
                       /\ DropFirst(lines[1], 17) = path

\* an injection of three lines has been annotated
C7_Witness ==
    /\ Encoded
    /\ LastEncoded.Type = "inject" /\ LastEncoded.Annotation = Nop3
    /\ Len(lines) = 3
    /\ DropFirst(lines[1], 17) = <<" ", "#", "n", "o", "p">>
    /\ Len(lines[2]) = 17

\* the segments a code can come to: the line $<name> [<authors>], a line
\* *<line> per description line, the lines of the geckoCodes in order, a blank line
RECURSIVE Bodies(_)
Bodies(build) ==
    IF build = <<>> THEN {<<>>}
    ELSE {first \o rest :
             first \in {o.lines : o \in {x \in generateCodeLinesCase(Head(build), platform, {}) :
                                            x.end = "ok"}},
             rest \in Bodies(Tail(build))}

AuthorList(authors) ==
    IF authors = <<>> THEN <<>>
    ELSE authors[1] \o Flatten([i \in 1..(Len(authors) - 1) |-> <<",", " ">> \o authors[i + 1]])

Segments(code) ==
    {<< <<"$">> \o code.Name \o <<" ", "[">> \o AuthorList(code.Authors) \o <<"]">> >>
        \o [i \in 1..Len(code.Description) |-> <<"*">> \o code.Description[i]]
        \o body \o << <<>> >> : body \in Bodies(code.Build)}

RECURSIVE Outputs(_)
Outputs(codes) ==
    IF codes = <<>> THEN {<<>>}
    ELSE {first \o rest : first \in Segments(Head(codes)), rest \in Outputs(Tail(codes))}

\* C8: after buildBody, output is the concatenation, in the order of the
\* codes, of one segment per code: its header line, its description lines, the
\* lines of its geckoCodes in declared order, one blank line.
C8_OutputIsSegmentsInOrder ==
    (pc = "writeOutput" \/ written # <<>>) => output \in Outputs(config.Codes)

\* buildBody has built two codes, the first of a replace and a three-line
\* injection, the second of an injection
C8_Witness ==
    /\ pc = "writeOutput"
    /\ Len(config.Codes) = 2
    /\ Len(config.Codes[1].Build) = 2
    /\ config.Codes[1].Build[1].Type = "replace"
    /\ config.Codes[1].Build[2].Type = "inject"
    /\ config.Codes[1].Description # <<>>
    /\ config.Codes[2].Build # <<>>
    /\ Len(output) > 10

====
